---- MODULE Spec2Model ----
(***************************************************************************)
(* maia-rust: the codec between chess positions and the Maia2 network.     *)
(*                                                                         *)
(*   tensor.rs  map_elos_to_categories, preprocess, board_to_tensor        *)
(*   maia.rs    Maia::batch_evaluate, Maia::process_output                 *)
(*   moves.rs   ALL_MOVES (the move vocabulary)                            *)
(*                                                                         *)
(* f32 values are modelled in fixed point.  Tensor cells are 0 or 1.  The  *)
(* value head is counted in units of 1/ONE, logits are small integers and  *)
(* a probability is the exact fraction exps[i] / sum_exp.                  *)
(***************************************************************************)
EXTENDS Integers, Sequences, FiniteSets, TLC

VARIABLES
    pc,               \* where the running call stands
    elo_selfs,        \* batch_evaluate: argument
    elo_oppos,        \* batch_evaluate: argument
    batch_size,       \* batch_evaluate / preprocess: local
    yielded,          \* the setups the iterator has handed out so far
    iter_done,        \* the iterator has answered None
    board_tensor,     \* preprocess: local, PreprocessedData field
    mirrored_vec,     \* preprocess: local, PreprocessedData.mirrored
    chess_positions,  \* preprocess: local, PreprocessedData field
    last_index,       \* preprocess: local
    engine_calls,     \* number of session.run invocations of the call
    engine_in,        \* the named inputs of the last session.run
    logits_maia,      \* outputs["logits_maia"], one row per item
    logits_value,     \* outputs["logits_value"], one scalar per item
    legal_seen,       \* what chess.legal_moves() answered, per decoded item
    results,          \* batch_evaluate: local
    outcome,          \* how the call ended
    fn_in,            \* argument of a function called on its own
    fn_out            \* its return value

vars == <<pc, elo_selfs, elo_oppos, batch_size, yielded, iter_done, board_tensor,
          mirrored_vec, chess_positions, last_index, engine_calls, engine_in,
          logits_maia, logits_value, legal_seen, results, outcome,
          fn_in, fn_out>>

----------------------------------------------------------------------------
(* Bounds of the model.                                                    *)

\* Longest rating slice handed to map_elos_to_categories on its own.
MaxElos == 2
\* Largest number of rating pairs of a batch_evaluate call.
MaxBatch == 2
\* Largest logit the engine returns (logits range over 0..MaxLogit).
MaxLogit == 2
\* Longest legal-move list the rules engine answers.
MaxLegal == 3
\* Largest raw value of the value head, in units of 2/ONE.
MaxRaw == 3

----------------------------------------------------------------------------
(* Program constants.                                                      *)

EloLowBound == 1100
EloHighBound == 2000
EloBucketWidth == 100
TopCategory == 10
NumChannels == 18
BoardDim == 8
BlackOffset == 6
TurnChannel == 12
CastlingChannel == 13
EpChannel == 17

----------------------------------------------------------------------------
(* Sequence helpers.                                                       *)

Range(s) == {s[k] : k \in DOMAIN s}

SeqsUpTo(S, n) == UNION {[1..k -> S] : k \in 0..n}

----------------------------------------------------------------------------
(* tensor.rs: map_elos_to_categories                                       *)

\* A plausible slip: the lowest bucket is merged with the 1100 bucket, as
\* the doc comment of batch_evaluate words it.
EloCategoryClampLow(e) ==
    IF e < EloLowBound THEN 1
    ELSE IF e >= EloHighBound THEN TopCategory
    ELSE ((e - EloLowBound) \div EloBucketWidth) + 1

\* The closure of map_elos_to_categories, on one u32.
EloCategory(e) ==
    IF e < EloLowBound THEN 0
    ELSE IF e >= EloHighBound THEN TopCategory
    ELSE ((e - EloLowBound) \div EloBucketWidth) + 1

\* elo.iter().map(..).collect()
map_elos_to_categories(elo) == [k \in DOMAIN elo |-> EloCategory(elo[k])]

----------------------------------------------------------------------------
(* shakmaty: squares, pieces, setups.  A square is rank * 8 + file, as in  *)
(* shakmaty's Square; Option<T> is a set of at most one T.                 *)

Sq(file, rank) == rank * BoardDim + file
RankOf(sq) == sq \div BoardDim
FileOf(sq) == sq % BoardDim
FlipVertical(sq) == Sq(FileOf(sq), (BoardDim - 1) - RankOf(sq))

A1 == Sq(0, 0)
E1 == Sq(4, 0)
H1 == Sq(7, 0)
A8 == Sq(0, 7)
E8 == Sq(4, 7)
H8 == Sq(7, 7)

Colors == {"white", "black"}
Other(color) == IF color = "white" THEN "black" ELSE "white"
Pc(color, role) == [color |-> color, role |-> role]

\* Board::piece_at(sq): the board is a function on its occupied squares.
PieceAt(board, sq) == IF sq \in DOMAIN board THEN {board[sq]} ELSE {}

\* Board::mirror: flip vertically and swap the colours.
MirrorBoard(board) ==
    [sq \in {FlipVertical(s) : s \in DOMAIN board} |->
        Pc(Other(board[FlipVertical(sq)].color), board[FlipVertical(sq)].role)]

\* Setup::mirror, as preprocess calls it.
Mirror(setup) ==
    [board |-> MirrorBoard(setup.board),
     turn |-> Other(setup.turn),
     castling_rights |-> {FlipVertical(s) : s \in setup.castling_rights},
     ep_square |-> {FlipVertical(s) : s \in setup.ep_square}]

SquaresOf(board, color, role) ==
    {s \in DOMAIN board : board[s] = Pc(color, role)}

\* The home square of the king whose rook right sits on square r.
KingHome(r) == Sq(4, RankOf(r))
RightColor(r) == IF RankOf(r) = 0 THEN "white" ELSE "black"

\* A plausible slip: the position is built without the checks of the rules.
PositionOkUnchecked(setup) == TRUE

\* Setup::position(CastlingMode::Standard): the checks of the rules engine
\* that the setups of this model can fail.
PositionOk(setup) ==
    /\ \A c \in Colors : Cardinality(SquaresOf(setup.board, c, "king")) = 1
    /\ \A c \in Colors : \A s \in SquaresOf(setup.board, c, "pawn") :
          RankOf(s) \notin {0, BoardDim - 1}
    /\ \A r \in setup.castling_rights :
          /\ r \in {A1, H1, A8, H8}
          /\ PieceAt(setup.board, r) = {Pc(RightColor(r), "rook")}
          /\ PieceAt(setup.board, KingHome(r)) = {Pc(RightColor(r), "king")}
    /\ \A e \in setup.ep_square :
          LET fwd == IF setup.turn = "white" THEN 1 ELSE -1
              want == IF setup.turn = "white" THEN 5 ELSE 2
          IN /\ RankOf(e) = want
             /\ PieceAt(setup.board, e) = {}
             /\ PieceAt(setup.board, e - fwd * BoardDim)
                    = {Pc(Other(setup.turn), "pawn")}

\* The Chess value built from a setup that passed the checks.
ChessOf(setup) == setup

----------------------------------------------------------------------------
(* tensor.rs: board_to_tensor                                              *)

RoleOffset(role) ==
    CASE role = "pawn" -> 0
      [] role = "knight" -> 1
      [] role = "bishop" -> 2
      [] role = "rook" -> 3
      [] role = "queen" -> 4
      [] role = "king" -> 5

ChannelOf(piece) ==
    (IF piece.color = "white" THEN 0 ELSE BlackOffset) + RoleOffset(piece.role)

Bit(b) == IF b THEN 1 ELSE 0

Channels == 0 .. (NumChannels - 1)
Dim == 0 .. (BoardDim - 1)

\* Array::zeros((18, 8, 8)): one item of the batch.
ZeroItem == [c \in Channels |-> [r \in Dim |-> [f \in Dim |-> 0]]]

\* The castling array of board_to_tensor, in its order K, Q, k, q.
CastlingSquares == <<H1, A1, H8, A8>>

\* tensor[[c, r, f]] = v
SetCell(tensor, c, r, f, v) == [tensor EXCEPT ![c][r][f] = v]

\* tensor.index_axis_mut(Axis(0), c).fill(v)
FillChannel(tensor, c, v) == [tensor EXCEPT ![c] = [r \in Dim |-> [f \in Dim |-> v]]]

\* A plausible slip: rank and file swapped in the index.
PieceCellsTransposed(setup, tensor) ==
    [c \in Channels |-> [r \in Dim |-> [f \in Dim |->
        IF /\ Sq(r, f) \in DOMAIN setup.board
           /\ ChannelOf(setup.board[Sq(r, f)]) = c
        THEN 1
        ELSE tensor[c][r][f]]]]

\* Step 1 of board_to_tensor: the loop over Square::ALL.  Every occupied
\* square sq writes 1.0 to the cell [channel, sq.rank(), sq.file()] of its
\* piece, so the cell [c, r, f] is written by the square of rank r and file
\* f alone; the other cells keep what the view held.
PieceCells(setup, tensor) ==
    [c \in Channels |-> [r \in Dim |-> [f \in Dim |->
        IF /\ Sq(f, r) \in DOMAIN setup.board
           /\ ChannelOf(setup.board[Sq(f, r)]) = c
        THEN 1
        ELSE tensor[c][r][f]]]]

\* Step 2 of board_to_tensor: channel 12.
TurnFill(setup, tensor) ==
    FillChannel(tensor, TurnChannel, Bit(setup.turn = "white"))

\* Step 3 of board_to_tensor: channels 13 + i for i = k - 1 .. 3.
RECURSIVE CastlingFill(_, _, _)
CastlingFill(setup, tensor, k) ==
    IF k > Len(CastlingSquares) THEN tensor
    ELSE CastlingFill(setup,
            FillChannel(tensor, CastlingChannel + (k - 1),
                        Bit(CastlingSquares[k] \in setup.castling_rights)),
            k + 1)

\* Step 4 of board_to_tensor: channel 17.
EpCell(setup, tensor) ==
    IF setup.ep_square = {} THEN tensor
    ELSE LET ep_sq == CHOOSE e \in setup.ep_square : TRUE
         IN SetCell(tensor, EpChannel, RankOf(ep_sq), FileOf(ep_sq), 1)

\* board_to_tensor(setup, view): what it leaves in the view it was given.
board_to_tensor(setup, view) ==
    EpCell(setup, CastlingFill(setup, TurnFill(setup, PieceCells(setup, view)), 1))

----------------------------------------------------------------------------
(* shakmaty: moves.  A Move is what legal_moves() lists; a UciMove is its  *)
(* notation.                                                               *)

Normal(from, to, promotion) ==
    [kind |-> "normal", from |-> from, to |-> to, promotion |-> promotion]
Castle(king, rook) ==
    [kind |-> "castle", from |-> king, to |-> rook, promotion |-> ""]
Uci(from, to, promotion) == [from |-> from, to |-> to, promotion |-> promotion]

\* Move::to_uci(CastlingMode::Standard): a castling move is written as the
\* king's two-square step, towards file g or file c.
ToUci(m) ==
    IF m.kind = "castle"
    THEN Uci(m.from, Sq(IF FileOf(m.to) > FileOf(m.from) THEN 6 ELSE 2, RankOf(m.from)), "")
    ELSE Uci(m.from, m.to, m.promotion)

\* UciMove::to_mirrored: both squares flipped vertically.
ToMirrored(uci) == Uci(FlipVertical(uci.from), FlipVertical(uci.to), uci.promotion)

G1F3 == Normal(Sq(6, 0), Sq(5, 2), "")
B1C3 == Normal(Sq(1, 0), Sq(2, 2), "")
D2D4 == Normal(Sq(3, 1), Sq(3, 3), "")
E1E2 == Normal(E1, Sq(4, 1), "")
CastleShort == Castle(E1, H1)
B7B8Q == Normal(Sq(1, 6), Sq(1, 7), "q")
B7B8N == Normal(Sq(1, 6), Sq(1, 7), "n")

\* The moves the rules engine can list in this model.
MoveOrder == <<G1F3, B1C3, D2D4, E1E2, CastleShort, B7B8Q, B7B8N>>
MoveUniverse == Range(MoveOrder)

\* The moves of the universe that the side to move can make at all: its
\* own piece on the first square (its king and rook for castling), none of
\* its pieces on the target square.
Candidates(chess) ==
    {m \in MoveUniverse :
        /\ m.from \in DOMAIN chess.board
        /\ chess.board[m.from].color = chess.turn
        /\ IF m.kind = "castle"
           THEN /\ m.to \in chess.castling_rights
                /\ ToUci(m).to \notin DOMAIN chess.board
           ELSE \/ m.to \notin DOMAIN chess.board
                \/ chess.board[m.to].color # chess.turn}

NoRepeat(s) == \A a, b \in DOMAIN s : a # b => s[a] # s[b]

\* What chess.legal_moves() may answer: the rules engine is not part of
\* the repository, so any list without repetition of candidate moves is.
LegalLists(chess) ==
    {l \in SeqsUpTo(Candidates(chess), MaxLegal) : NoRepeat(l)}

\* Inside a batch the model lets the rules engine answer with no move or
\* with every candidate move.
IsCandidate(chess, m) == m \in Candidates(chess)
BatchLegalLists(chess) ==
    {<<>>, SelectSeq(MoveOrder, LAMBDA m : IsCandidate(chess, m))}

----------------------------------------------------------------------------
(* moves.rs: ALL_MOVES.  data/all_moves.json is not among the sources; the *)
(* table below stands for it, with three moves of the universe left out.   *)

ALL_MOVES ==
    (ToUci(D2D4) :> 0) @@ (ToUci(B7B8Q) :> 1) @@ (ToUci(G1F3) :> 2)
        @@ (ToUci(E1E2) :> 3)

\* The length of a row of logits_maia.
VocabSize == Cardinality(DOMAIN ALL_MOVES)

----------------------------------------------------------------------------
(* maia.rs: process_output                                                 *)

ONE == 4
NEG_INFINITY == -1

Clamp(x, lo, hi) == IF x < lo THEN lo ELSE IF x > hi THEN hi ELSE x

\* A plausible slip: the flip for a mirrored item is left out.
WinProbNoFlip(raw_value, mirrored) ==
    Clamp((raw_value \div 2) + (ONE \div 2), 0, ONE)

\* (raw_value / 2.0 + 0.5).clamp(0.0, 1.0), then 1.0 - win_prob if mirrored.
\* Values are counted in units of 1/ONE; raw values are even, so that the
\* halving is exact as it is for these values in f32.
WinProb(raw_value, mirrored) ==
    LET win_prob == Clamp((raw_value \div 2) + (ONE \div 2), 0, ONE)
    IN IF mirrored THEN ONE - win_prob ELSE win_prob

\* (logit - max_logit).exp(), as a strictly increasing fixed-point function
\* of the difference that underflows to 0 at the largest difference.
Exp(d) == IF 0 - d >= MaxLogit THEN 0 ELSE 2 ^ (MaxLogit - 1 + d)

\* A plausible slip: the notation is never mirrored back.
ActualUciNoMirror(uci, mirrored) == uci

\* let actual_uci = if mirrored { uci.to_mirrored() } else { uci };
ActualUci(uci, mirrored) == IF mirrored THEN ToMirrored(uci) ELSE uci

\* A plausible slip: a move missing from the vocabulary is kept, scored with
\* the first logit.
RECURSIVE MoveDataKeepAll(_, _, _, _)
MoveDataKeepAll(legal_moves, logits, mirrored, k) ==
    IF k > Len(legal_moves) THEN <<>>
    ELSE LET uci == ToUci(legal_moves[k])
             idx == IF uci \in DOMAIN ALL_MOVES THEN ALL_MOVES[uci] ELSE 0
         IN <<[uci |-> ActualUci(uci, mirrored), logit |-> logits[idx]]>>
                \o MoveDataKeepAll(legal_moves, logits, mirrored, k + 1)

\* The loop `for m in &legal_moves`, from the k-th move on: the entries it
\* pushes to move_data.
RECURSIVE MoveData(_, _, _, _)
MoveData(legal_moves, logits, mirrored, k) ==
    IF k > Len(legal_moves) THEN <<>>
    ELSE LET uci == ToUci(legal_moves[k])
             rest == MoveData(legal_moves, logits, mirrored, k + 1)
         IN IF uci \in DOMAIN ALL_MOVES
            THEN <<[uci |-> ActualUci(uci, mirrored),
                    logit |-> logits[ALL_MOVES[uci]]]>> \o rest
            ELSE rest

\* max_logit after the same loop.
RECURSIVE MaxLogitOf(_, _)
MaxLogitOf(move_data, k) ==
    IF k > Len(move_data) THEN NEG_INFINITY
    ELSE LET rest == MaxLogitOf(move_data, k + 1)
         IN IF move_data[k].logit > rest THEN move_data[k].logit ELSE rest

RECURSIVE SumSeq(_, _)
SumSeq(s, k) == IF k > Len(s) THEN 0 ELSE s[k] + SumSeq(s, k + 1)

\* b.probability.partial_cmp(&a.probability) = Less: a sorts before b.
\* Probabilities are fractions num / den with den > 0.
SortsBefore(a, b) ==
    b.probability.num * a.probability.den < a.probability.num * b.probability.den

\* Insert x into the sorted sequence s behind every element that does not
\* sort after it: the step of a stable insertion sort.
RECURSIVE InsertStable(_, _)
InsertStable(s, x) ==
    IF s = <<>> THEN <<x>>
    ELSE IF SortsBefore(x, s[Len(s)])
         THEN InsertStable(SubSeq(s, 1, Len(s) - 1), x) \o <<s[Len(s)]>>
         ELSE s \o <<x>>

\* A plausible slip: an unstable sort, equal entries end up reversed.
RECURSIVE InsertUnstable(_, _)
InsertUnstable(s, x) ==
    IF s = <<>> THEN <<x>>
    ELSE IF ~SortsBefore(s[Len(s)], x)
         THEN InsertUnstable(SubSeq(s, 1, Len(s) - 1), x) \o <<s[Len(s)]>>
         ELSE s \o <<x>>

RECURSIVE SortByUnstable(_, _)
SortByUnstable(policy, k) ==
    IF k = 0 THEN <<>>
    ELSE InsertUnstable(SortByUnstable(policy, k - 1), policy[k])

\* policy.sort_by(..): slice::sort_by is stable; the first k entries sorted.
RECURSIVE SortBy(_, _)
SortBy(policy, k) ==
    IF k = 0 THEN <<>>
    ELSE InsertStable(SortBy(policy, k - 1), policy[k])

\* process_output(logits_maia, raw_value, chess, mirrored), where
\* legal_moves is what chess.legal_moves() answered.
process_output(logits, raw_value, legal_moves, mirrored) ==
    LET move_data == MoveData(legal_moves, logits, mirrored, 1)
        max_logit == MaxLogitOf(move_data, 1)
        exps == [k \in DOMAIN move_data |-> Exp(move_data[k].logit - max_logit)]
        sum_exp == SumSeq(exps, 1)
        policy == [k \in DOMAIN move_data |->
                      [uci |-> move_data[k].uci,
                       probability |-> [num |-> exps[k], den |-> sum_exp]]]
    IN [policy |-> SortBy(policy, Len(policy)),
        value |-> WinProb(raw_value, mirrored)]

----------------------------------------------------------------------------
(* The setups the callers of this model supply.                            *)

BackRoles == <<"rook", "knight", "bishop", "queen", "king", "bishop", "knight", "rook">>
BackRank(color, rank) ==
    [sq \in {Sq(f, rank) : f \in Dim} |-> Pc(color, BackRoles[FileOf(sq) + 1])]
Pawns(color, rank, files) ==
    [sq \in {Sq(f, rank) : f \in files} |-> Pc(color, "pawn")]

\* rnbqkbnr/pppp1ppp/8/4p3/4P3/8/PPPP1PPP/RNBQKBNR, the position of
\* tests::verify_tensor_output.
TestBoard ==
    BackRank("white", 0) @@ Pawns("white", 1, Dim \ {4})
        @@ (Sq(4, 3) :> Pc("white", "pawn")) @@ (Sq(4, 4) :> Pc("black", "pawn"))
        @@ Pawns("black", 6, Dim \ {4}) @@ BackRank("black", 7)

\* rnbqkbnr/pppppppp/8/8/4P3/8/PPPP1PPP/RNBQKBNR
AfterE4Board ==
    BackRank("white", 0) @@ Pawns("white", 1, Dim \ {4})
        @@ (Sq(4, 3) :> Pc("white", "pawn"))
        @@ Pawns("black", 6, Dim) @@ BackRank("black", 7)

\* r3k3/8/8/8/8/8/8/4K2R
RookBoard ==
    (E1 :> Pc("white", "king")) @@ (H1 :> Pc("white", "rook"))
        @@ (E8 :> Pc("black", "king")) @@ (A8 :> Pc("black", "rook"))

\* 7k/8/8/8/8/8/1p6/K7 mirrors to a White pawn on b7.
PromoBoard ==
    (A1 :> Pc("white", "king")) @@ (H8 :> Pc("black", "king"))
        @@ (Sq(1, 1) :> Pc("black", "pawn"))

\* 4k3/8/8/8/8/8/6PP/4r2K: White is checkmated.
MatedBoard ==
    (H1 :> Pc("white", "king")) @@ Pawns("white", 1, {6, 7})
        @@ (E1 :> Pc("black", "rook")) @@ (E8 :> Pc("black", "king"))

\* 8/8/8/8/8/8/4P3/4K3: no Black king.
NoKingBoard ==
    (E1 :> Pc("white", "king")) @@ (Sq(4, 1) :> Pc("white", "pawn"))

MkSetup(board, turn, castling_rights, ep_square) ==
    [board |-> board, turn |-> turn, castling_rights |-> castling_rights,
     ep_square |-> ep_square]

TestSetup == MkSetup(TestBoard, "white", {A1, H1, A8, H8}, {})
AfterE4Setup == MkSetup(AfterE4Board, "black", {A1, H1, A8, H8}, {Sq(4, 2)})
NoKingSetup == MkSetup(NoKingBoard, "white", {}, {})

\* The setups preprocess is given when it is called on its own.
SetupPool ==
    {TestSetup,
     MkSetup(TestBoard, "black", {A1, H1, A8, H8}, {}),
     AfterE4Setup,
     MkSetup(AfterE4Board, "white", {A1, H1, A8, H8}, {Sq(4, 2)}),
     MkSetup(RookBoard, "white", {H1}, {}),
     MkSetup(RookBoard, "black", {A8}, {}),
     MkSetup(RookBoard, "white", {A1}, {}),
     MkSetup(PromoBoard, "black", {}, {}),
     MkSetup(MatedBoard, "white", {}, {}),
     NoKingSetup,
     MkSetup(NoKingBoard, "black", {}, {})}

\* The setups batch_evaluate is given.
BatchSetups == {TestSetup, AfterE4Setup, NoKingSetup}

\* The ratings batch_evaluate is given.
BatchElos == {900, 1170}

\* The ratings map_elos_to_categories is given when called on its own: the
\* ends of every bucket, the ratings its documentation names, the ends of u32.
EloPool ==
    {0, 899, 900, 1099, 1150, 1170, 2050, 2147483647}
        \cup {EloLowBound + k * EloBucketWidth : k \in 0 .. 9}
        \cup {EloLowBound + k * EloBucketWidth - 1 : k \in 0 .. 9}
        \cup {EloHighBound}

\* The slice of the bucket-boundary scenario.
BoundaryElos == <<0, 899, 1099, 1100, 1150, 1199, 1200, 1999, 2000, 2050>>

----------------------------------------------------------------------------
(* shakmaty: Fen::from_str, as evaluate_fen calls it.  A FEN text is a     *)
(* sequence of characters; a Result is the set of at most one value.       *)

WhiteChars == {"P", "N", "B", "R", "Q", "K"}
BlackChars == {"p", "n", "b", "r", "q", "k"}
DigitChars == {"0", "1", "2", "3", "4", "5", "6", "7", "8", "9"}
EmptyRunChars == DigitChars \ {"0", "9"}
FileChars == <<"a", "b", "c", "d", "e", "f", "g", "h">>

DigitValue(ch) == CHOOSE d \in 0 .. 9 :
    <<"0", "1", "2", "3", "4", "5", "6", "7", "8", "9">>[d + 1] = ch

\* Piece::from_char
FenColor(ch) == IF ch \in WhiteChars THEN "white" ELSE "black"
FenRole(ch) ==
    CASE ch \in {"P", "p"} -> "pawn"
      [] ch \in {"N", "n"} -> "knight"
      [] ch \in {"B", "b"} -> "bishop"
      [] ch \in {"R", "r"} -> "rook"
      [] ch \in {"Q", "q"} -> "queen"
      [] ch \in {"K", "k"} -> "king"

\* text.split(sep): the pieces between the separators, in order.
SplitOn(text, sep) ==
    LET cuts == {j \in DOMAIN text : text[j] = sep}
        n == Cardinality(cuts)
        Cut(k) == IF k = 0 THEN 0
                  ELSE IF k = n + 1 THEN Len(text) + 1
                  ELSE CHOOSE p \in cuts : Cardinality({q \in cuts : q < p}) = k - 1
    IN [k \in 1 .. (n + 1) |-> SubSeq(text, Cut(k - 1) + 1, Cut(k) - 1)]

\* The files a character of the board field covers.
CharWidth(ch) == IF ch \in EmptyRunChars THEN DigitValue(ch) ELSE 1
RankWidth(rank_text) ==
    SumSeq([j \in 1 .. Len(rank_text) |-> CharWidth(rank_text[j])], 1)

\* The board field reads as eight ranks of eight files.
BoardFieldOk(field) ==
    LET ranks == SplitOn(field, "/")
    IN /\ Len(ranks) = BoardDim
       /\ \A k \in DOMAIN ranks :
             /\ \A j \in DOMAIN ranks[k] :
                   ranks[k][j] \in WhiteChars \cup BlackChars \cup EmptyRunChars
             /\ RankWidth(ranks[k]) = BoardDim

\* The board of a board field: the first rank of the text is rank 8.
BoardOfField(field) ==
    LET ranks == SplitOn(field, "/")
        placed == UNION {
            {[sq |-> Sq(RankWidth(SubSeq(ranks[k], 1, j - 1)), BoardDim - k),
              ch |-> ranks[k][j]] :
                 j \in {i \in DOMAIN ranks[k] : ranks[k][i] \notin EmptyRunChars}} :
            k \in DOMAIN ranks}
    IN [s \in {p.sq : p \in placed} |->
           LET p == CHOOSE q \in placed : q.sq = s
           IN Pc(FenColor(p.ch), FenRole(p.ch))]

TurnFieldOk(field) == field \in {<<"w">>, <<"b">>}
TurnOfField(field) == IF field = <<"w">> THEN "white" ELSE "black"

CastlingFieldOk(field) ==
    \/ field = <<"-">>
    \/ /\ Len(field) > 0
       /\ \A j \in DOMAIN field : field[j] \in {"K", "Q", "k", "q"}
       /\ Cardinality(Range(field)) = Len(field)
CastlingSquare(ch) ==
    CASE ch = "K" -> H1 [] ch = "Q" -> A1 [] ch = "k" -> H8 [] ch = "q" -> A8
CastlingOfField(field) ==
    IF field = <<"-">> THEN {} ELSE {CastlingSquare(ch) : ch \in Range(field)}

EpFieldOk(field) ==
    \/ field = <<"-">>
    \/ /\ Len(field) = 2
       /\ field[1] \in Range(FileChars)
       /\ field[2] \in EmptyRunChars
EpOfField(field) ==
    IF field = <<"-">> THEN {}
    ELSE {Sq((CHOOSE f \in DOMAIN FileChars : FileChars[f] = field[1]) - 1,
             DigitValue(field[2]) - 1)}

CounterFieldOk(field) ==
    /\ Len(field) > 0
    /\ \A j \in DOMAIN field : field[j] \in DigitChars

\* fen.parse::<Fen>() followed by Setup::from: the setup, or no setup when
\* the text is rejected with a ParseFenError.  Fields left out take their
\* defaults.
ParseFen(text) ==
    LET fields == SplitOn(text, " ")
        n == Len(fields)
    IN IF /\ n <= 6
          /\ BoardFieldOk(fields[1])
          /\ (n >= 2 => TurnFieldOk(fields[2]))
          /\ (n >= 3 => CastlingFieldOk(fields[3]))
          /\ (n >= 4 => EpFieldOk(fields[4]))
          /\ \A k \in 5 .. n : CounterFieldOk(fields[k])
       THEN {MkSetup(BoardOfField(fields[1]),
                     IF n >= 2 THEN TurnOfField(fields[2]) ELSE "white",
                     IF n >= 3 THEN CastlingOfField(fields[3]) ELSE {},
                     IF n >= 4 THEN EpOfField(fields[4]) ELSE {})}
       ELSE {}

\* Texts joined by a separator.
RECURSIVE Join(_, _)
Join(parts, sep) ==
    IF Len(parts) = 0 THEN <<>>
    ELSE IF Len(parts) = 1 THEN parts[1]
    ELSE parts[1] \o <<sep>> \o Join(Tail(parts), sep)

BackRankText == <<"r", "n", "b", "q", "k", "b", "n", "r">>
BackRankTextWhite == <<"R", "N", "B", "Q", "K", "B", "N", "R">>
PawnsText == <<"p", "p", "p", "p", "p", "p", "p", "p">>
\* rnbqkbnr/pppp1ppp/8/4p3/4P3/8/PPPP1PPP/RNBQKBNR
TestBoardText ==
    Join(<<BackRankText, <<"p", "p", "p", "p", "1", "p", "p", "p">>, <<"8">>,
           <<"4", "p", "3">>, <<"4", "P", "3">>, <<"8">>,
           <<"P", "P", "P", "P", "1", "P", "P", "P">>, BackRankTextWhite>>, "/")
\* rnbqkbnr/pppppppp/8/8/4P3/8/PPPP1PPP/RNBQKBNR
AfterE4BoardText ==
    Join(<<BackRankText, PawnsText, <<"8">>, <<"8">>, <<"4", "P", "3">>, <<"8">>,
           <<"P", "P", "P", "P", "1", "P", "P", "P">>, BackRankTextWhite>>, "/")
\* 8/8/8/8/8/8/4P3/4K3
NoKingBoardText ==
    Join(<<<<"8">>, <<"8">>, <<"8">>, <<"8">>, <<"8">>, <<"8">>,
           <<"4", "P", "3">>, <<"4", "K", "3">>>>, "/")

\* "rnbqkbnr/pppp1ppp/8/4p3/4P3/8/PPPP1PPP/RNBQKBNR w KQkq - 0 2", the text of
\* tests::verify_tensor_output and of examples/simple.rs.
TestFen ==
    Join(<<TestBoardText, <<"w">>, <<"K", "Q", "k", "q">>, <<"-">>, <<"0">>, <<"2">>>>, " ")
\* "rnbqkbnr/pppppppp/8/8/4P3/8/PPPP1PPP/RNBQKBNR b KQkq e3 0 1"
AfterE4Fen ==
    Join(<<AfterE4BoardText, <<"b">>, <<"K", "Q", "k", "q">>, <<"e", "3">>, <<"0">>, <<"1">>>>, " ")
\* "8/8/8/8/8/8/4P3/4K3 w - - 0 1": it parses, and has no Black king.
NoKingFen ==
    Join(<<NoKingBoardText, <<"w">>, <<"-">>, <<"-">>, <<"0">>, <<"1">>>>, " ")

\* Texts the parser rejects: the empty text, words, seven ranks, a rank of
\* nine files, a letter that is no piece, a side to move that is no colour.
MalformedFens ==
    {<<>>,
     <<"e", "2", "e", "4">>,
     Join(<<<<"8">>, <<"8">>, <<"8">>, <<"8">>, <<"8">>, <<"8">>, <<"4", "K", "3">>>>, "/"),
     Join(<<Join(<<BackRankText, PawnsText \o <<"p">>, <<"8">>, <<"8">>, <<"8">>, <<"8">>,
                   <<"P", "P", "P", "P", "P", "P", "P", "P">>, BackRankTextWhite>>, "/"),
            <<"w">>>>, " "),
     Join(<<Join(<<BackRankText, PawnsText, <<"8">>, <<"8">>, <<"4", "x", "3">>, <<"8">>,
                   <<"P", "P", "P", "P", "1", "P", "P", "P">>, BackRankTextWhite>>, "/"),
            <<"w">>, <<"K", "Q", "k", "q">>, <<"-">>, <<"0">>, <<"1">>>>, " "),
     Join(<<TestBoardText, <<"x">>, <<"K", "Q", "k", "q">>, <<"-">>, <<"0">>, <<"2">>>>, " ")}

\* The texts evaluate_fen is given.
FenPool == {TestFen, AfterE4Fen, NoKingFen} \cup MalformedFens

----------------------------------------------------------------------------
(* tensor.rs: preprocess, one pass of its loop per step                    *)

\* Array4::zeros((batch_size, 18, 8, 8)); axis 0 is indexed from 0.
ZeroTensor(n) == [b \in 0 .. (n - 1) |-> ZeroItem]

\* A plausible slip: the flag records White to move.
MirroredFlagWhite(setup) == setup.turn = "white"

\* let mirrored = setup.turn.is_black();
MirroredFlag(setup) == setup.turn = "black"

\* if mirrored { setup.mirror(); }
Canonical(setup) == IF MirroredFlag(setup) THEN Mirror(setup) ELSE setup

\* The state preprocess starts from: lines 55-58.
PreprocessStart(n) ==
    /\ batch_size' = n
    /\ board_tensor' = ZeroTensor(n)
    /\ mirrored_vec' = <<>>
    /\ chess_positions' = <<>>
    /\ last_index' = 0
    /\ yielded' = <<>>
    /\ iter_done' = FALSE

\* One pass of `for (i, mut setup) in setups.into_iter().enumerate()`: the
\* iterator hands out `setup` as item i.
PreprocessItem(setup) ==
    LET i == Len(yielded)
        canon == Canonical(setup)
    IN
    /\ pc = "preprocess"
    /\ yielded' = Append(yielded, setup)
    /\ last_index' = i
    /\ IF i >= batch_size
       THEN \* panic!("More setups provided than batch size")
            /\ pc' = "done"
            /\ outcome' = "panic"
            /\ UNCHANGED <<board_tensor, mirrored_vec, chess_positions>>
       ELSE /\ mirrored_vec' = Append(mirrored_vec, MirroredFlag(setup))
            /\ board_tensor' =
                   [board_tensor EXCEPT ![i] = board_to_tensor(canon, @)]
            /\ IF PositionOk(canon)
               THEN /\ chess_positions' = Append(chess_positions, ChessOf(canon))
                    /\ UNCHANGED <<pc, outcome>>
               ELSE \* the `?` on setup.position(..)
                    /\ pc' = "done"
                    /\ outcome' = "InvalidPosition"
                    /\ UNCHANGED chess_positions
    /\ UNCHANGED <<elo_selfs, elo_oppos, batch_size, iter_done, engine_calls,
                   engine_in, logits_maia, logits_value, legal_seen, results,
                   fn_in, fn_out>>

\* The iterator hands out a setup of `pool`.
PreprocessNext(pool) == \E setup \in pool : PreprocessItem(setup)

\* if last_index + 1 != batch_size
FewerSetups == last_index + 1 # batch_size

\* The iterator is exhausted: the check behind the loop, then Ok(..).
PreprocessEnd ==
    /\ pc = "preprocess"
    /\ IF FewerSetups
       THEN \* panic!("Fewer setups provided than batch size")
            /\ pc' = "done"
            /\ outcome' = "panic"
       ELSE /\ pc' = "preprocessed"
            /\ UNCHANGED outcome
    /\ iter_done' = TRUE
    /\ UNCHANGED <<elo_selfs, elo_oppos, batch_size, yielded, board_tensor,
                   mirrored_vec, chess_positions, last_index, engine_calls,
                   engine_in, logits_maia, logits_value, legal_seen, results,
                   fn_in, fn_out>>

----------------------------------------------------------------------------
(* maia.rs: batch_evaluate                                                 *)

\* A plausible slip: the check of the two slices is left out.
EloLengthsDifferNever(selfs, oppos) == FALSE

\* assert_eq!(elo_oppos.len(), batch_size) fails
EloLengthsDiffer(selfs, oppos) == Len(oppos) # Len(selfs)

\* batch_evaluate(setups, selfs, oppos), up to the first pass of the loop of
\* preprocess.
BatchEvaluateEnter(selfs, oppos) ==
    /\ elo_selfs' = selfs
    /\ elo_oppos' = oppos
    /\ IF EloLengthsDiffer(selfs, oppos)
       THEN \* the assertion fails: preprocess is never entered
            /\ pc' = "done"
            /\ outcome' = "panic"
            /\ batch_size' = Len(selfs)
            /\ UNCHANGED <<yielded, iter_done, board_tensor, mirrored_vec,
                           chess_positions, last_index>>
       ELSE /\ PreprocessStart(Len(selfs))
            /\ pc' = "preprocess"
            /\ UNCHANGED outcome

\* A caller of the library calls batch_evaluate.
BatchEvaluate ==
    /\ pc = "idle"
    /\ \E selfs, oppos \in SeqsUpTo(BatchElos, MaxBatch) :
          BatchEvaluateEnter(selfs, oppos)
    /\ UNCHANGED <<engine_calls, engine_in, logits_maia, logits_value,
                   legal_seen, results, fn_in, fn_out>>

\* The named inputs of session.run.
EngineInputs ==
    [boards |-> board_tensor,
     elo_self |-> map_elos_to_categories(elo_selfs),
     elo_oppo |-> map_elos_to_categories(elo_oppos)]

\* What the engine answers for one item: a row of logits and a scalar.
LogitRows == [0 .. (VocabSize - 1) -> 0 .. MaxLogit]
RawValues == {2 * k : k \in (0 - MaxRaw) .. MaxRaw}
\* Inside a batch the model lets the engine answer one of two replies.
EngineReplies ==
    {[row |-> [k \in 0 .. (VocabSize - 1) |-> 0], value |-> 0 - 2],
     [row |-> [k \in 0 .. (VocabSize - 1) |-> IF k < 2 THEN MaxLogit ELSE k - 2],
      value |-> ONE + 2]}

\* session.run(..) returns the two outputs, with a row and a scalar per item.
EngineReturns ==
    /\ pc = "preprocessed"
    /\ engine_calls' = engine_calls + 1
    /\ engine_in' = EngineInputs
    /\ \E replies \in [1 .. batch_size -> EngineReplies] :
          /\ logits_maia' = [k \in 1 .. batch_size |-> replies[k].row]
          /\ logits_value' = [k \in 1 .. batch_size |-> replies[k].value]
    /\ pc' = "decode"
    /\ UNCHANGED <<elo_selfs, elo_oppos, batch_size, yielded, iter_done,
                   board_tensor,
                   mirrored_vec, chess_positions, last_index, legal_seen,
                   results, outcome, fn_in, fn_out>>

\* session.run(..) fails, or an output cannot be extracted: the `?`.
EngineFails ==
    /\ pc = "preprocessed"
    /\ engine_calls' = engine_calls + 1
    /\ engine_in' = EngineInputs
    /\ pc' = "done"
    /\ outcome' = "OrtError"
    /\ UNCHANGED <<elo_selfs, elo_oppos, batch_size, yielded, iter_done,
                   board_tensor,
                   mirrored_vec, chess_positions, last_index, logits_maia,
                   logits_value, legal_seen, results, fn_in, fn_out>>

\* An output has another rank than expected: into_dimensionality(..).unwrap()
EngineBadShape ==
    /\ pc = "preprocessed"
    /\ engine_calls' = engine_calls + 1
    /\ engine_in' = EngineInputs
    /\ pc' = "done"
    /\ outcome' = "panic"
    /\ UNCHANGED <<elo_selfs, elo_oppos, batch_size, yielded, iter_done,
                   board_tensor,
                   mirrored_vec, chess_positions, last_index, logits_maia,
                   logits_value, legal_seen, results, fn_in, fn_out>>

\* A plausible slip: every item is decoded with the flag of the first.
FlagForItemFirst(k) == mirrored_vec[1]

\* data.mirrored[i], with i = k - 1
FlagForItem(k) == mirrored_vec[k]

\* One pass of `for i in 0..batch_size`, with i = Len(results).
DecodeItem ==
    LET k == Len(results) + 1
    IN
    /\ pc = "decode"
    /\ k <= batch_size
    /\ IF k > Len(chess_positions)
       THEN \* &data.chess_positions[i]: index out of bounds
            /\ pc' = "done"
            /\ outcome' = "panic"
            /\ UNCHANGED <<results, legal_seen>>
       ELSE \E legal_moves \in BatchLegalLists(chess_positions[k]) :
               /\ legal_seen' = Append(legal_seen, legal_moves)
               /\ results' = Append(results,
                      process_output(logits_maia[k], logits_value[k],
                                     legal_moves, FlagForItem(k)))
               /\ UNCHANGED <<pc, outcome>>
    /\ UNCHANGED <<elo_selfs, elo_oppos, batch_size, yielded, iter_done,
                   board_tensor,
                   mirrored_vec, chess_positions, last_index, engine_calls,
                   engine_in, logits_maia, logits_value, fn_in, fn_out>>

\* Ok(results)
ReturnResults ==
    /\ pc = "decode"
    /\ Len(results) = batch_size
    /\ pc' = "done"
    /\ outcome' = "ok"
    /\ UNCHANGED <<elo_selfs, elo_oppos, batch_size, yielded, iter_done,
                   board_tensor,
                   mirrored_vec, chess_positions, last_index, engine_calls,
                   engine_in, logits_maia, logits_value, legal_seen, results,
                   fn_in, fn_out>>

\* The running call entered through evaluate_fen, whose arguments fn_in holds.
ViaFen == DOMAIN fn_in # {}

\* A caller of the library calls evaluate_fen(fen, elo_self, elo_oppo).
EvaluateFen ==
    /\ pc = "idle"
    /\ \E fen \in FenPool, elo_self, elo_oppo \in BatchElos :
          /\ fn_in' = [fen |-> fen, elo_self |-> elo_self, elo_oppo |-> elo_oppo]
          /\ IF ParseFen(fen) = {}
             THEN \* the `?` on fen.parse()
                  /\ pc' = "returned"
                  /\ outcome' = "InvalidFen"
                  /\ UNCHANGED <<elo_selfs, elo_oppos, batch_size, yielded,
                                 iter_done, board_tensor, mirrored_vec,
                                 chess_positions, last_index>>
             ELSE BatchEvaluateEnter(<<elo_self>>, <<elo_oppo>>)
    /\ UNCHANGED <<engine_calls, engine_in, logits_maia, logits_value,
                   legal_seen, results, fn_out>>

\* The iterator of `[setup]` hands out the parsed setup.
FenSetupNext ==
    /\ ViaFen
    /\ yielded = <<>>
    /\ PreprocessNext(ParseFen(fn_in.fen))

\* The iterator of `[setup]` is exhausted after its one item.
FenSetupEnd ==
    /\ ViaFen
    /\ Len(yielded) = 1
    /\ PreprocessEnd

\* batch_evaluate has returned to evaluate_fen: the `?` hands an error on,
\* Ok(results.into_iter().next().unwrap()) hands the first result on.
EvaluateFenReturns ==
    /\ pc = "done"
    /\ ViaFen
    /\ outcome # "panic"
    /\ pc' = "returned"
    /\ fn_out' = IF outcome = "ok" THEN <<Head(results)>> ELSE <<>>
    /\ UNCHANGED <<elo_selfs, elo_oppos, batch_size, yielded, iter_done,
                   board_tensor,
                   mirrored_vec, chess_positions, last_index, engine_calls,
                   engine_in, logits_maia, logits_value, legal_seen, results,
                   outcome, fn_in>>

\* The iterator a caller of batch_evaluate supplies hands out any setup, and
\* ends anywhere.
SetupsNext == ~ViaFen /\ PreprocessNext(BatchSetups)
SetupsEnd == ~ViaFen /\ PreprocessEnd

\* The state after Maia::from_session: no call made yet.
Idle ==
    /\ elo_selfs = <<>>
    /\ elo_oppos = <<>>
    /\ batch_size = 0
    /\ yielded = <<>>
    /\ iter_done = FALSE
    /\ board_tensor = ZeroTensor(0)
    /\ mirrored_vec = <<>>
    /\ chess_positions = <<>>
    /\ last_index = 0
    /\ engine_calls = 0
    /\ engine_in = <<>>
    /\ logits_maia = <<>>
    /\ logits_value = <<>>
    /\ legal_seen = <<>>
    /\ results = <<>>
    /\ outcome = "none"

Init ==
    /\ pc = "idle"
    /\ Idle
    /\ fn_in = <<>>
    /\ fn_out = <<>>

Next ==
    \/ BatchEvaluate
    \/ EvaluateFen
    \/ SetupsNext
    \/ SetupsEnd
    \/ FenSetupNext
    \/ FenSetupEnd
    \/ EngineReturns
    \/ EngineFails
    \/ EngineBadShape
    \/ DecodeItem
    \/ ReturnResults
    \/ EvaluateFenReturns

Spec == Init /\ [][Next]_vars

----------------------------------------------------------------------------
(* preprocess called on its own, with any batch_size.                      *)

InitPreprocess ==
    /\ pc = "preprocess"
    /\ elo_selfs = <<>>
    /\ elo_oppos = <<>>
    /\ batch_size \in 0 .. MaxBatch
    /\ board_tensor = ZeroTensor(batch_size)
    /\ mirrored_vec = <<>>
    /\ chess_positions = <<>>
    /\ last_index = 0
    /\ yielded = <<>>
    /\ iter_done = FALSE
    /\ engine_calls = 0
    /\ engine_in = <<>>
    /\ logits_maia = <<>>
    /\ logits_value = <<>>
    /\ legal_seen = <<>>
    /\ results = <<>>
    /\ outcome = "none"
    /\ fn_in = <<>>
    /\ fn_out = <<>>

NextPreprocess ==
    \/ PreprocessNext(SetupPool)
    \/ PreprocessEnd

SpecPreprocess == InitPreprocess /\ [][NextPreprocess]_vars

----------------------------------------------------------------------------
(* map_elos_to_categories called on its own.                               *)

InitMapElos ==
    /\ pc = "call"
    /\ Idle
    /\ fn_in \in SeqsUpTo(EloPool, MaxElos) \cup {BoundaryElos}
    /\ fn_out = <<>>

MapElos ==
    /\ pc = "call"
    /\ fn_out' = map_elos_to_categories(fn_in)
    /\ pc' = "returned"
    /\ UNCHANGED <<elo_selfs, elo_oppos, batch_size, yielded, iter_done,
                   board_tensor,
                   mirrored_vec, chess_positions, last_index, engine_calls,
                   engine_in, logits_maia, logits_value, legal_seen, results,
                   outcome, fn_in>>

SpecMapElos == InitMapElos /\ [][MapElos]_vars

----------------------------------------------------------------------------
(* process_output called on its own.                                       *)

\* The positions preprocess can hand to process_output.
DecodePositions ==
    {ChessOf(Canonical(setup)) : setup \in {x \in SetupPool : PositionOk(Canonical(x))}}

InitProcessOutput ==
    /\ pc = "call"
    /\ Idle
    /\ \E logits \in LogitRows, raw_value \in RawValues,
          chess \in DecodePositions, mirrored \in BOOLEAN :
          \E legal_moves \in LegalLists(chess) :
             fn_in = [logits |-> logits, raw_value |-> raw_value,
                      chess |-> chess, legal_moves |-> legal_moves,
                      mirrored |-> mirrored]
    /\ fn_out = <<>>

ProcessOutput ==
    /\ pc = "call"
    /\ fn_out' = process_output(fn_in.logits, fn_in.raw_value,
                                fn_in.legal_moves, fn_in.mirrored)
    /\ pc' = "returned"
    /\ UNCHANGED <<elo_selfs, elo_oppos, batch_size, yielded, iter_done,
                   board_tensor,
                   mirrored_vec, chess_positions, last_index, engine_calls,
                   engine_in, logits_maia, logits_value, legal_seen, results,
                   outcome, fn_in>>

SpecProcessOutput == InitProcessOutput /\ [][ProcessOutput]_vars

----------------------------------------------------------------------------
(* Claims.                                                                 *)

\* The three lengths of the call are seen to disagree: the two slices
\* differ, or the iterator hands out more setups than there are ratings, or
\* it ends before it has handed out as many.
LengthsDisagree ==
    \/ Len(elo_selfs) # Len(elo_oppos)
    \/ Len(yielded) > Len(elo_selfs)
    \/ (iter_done /\ Len(yielded) # Len(elo_selfs))

FedRatings == elo_selfs \o elo_oppos
FedCategories == engine_in.elo_self \o engine_in.elo_oppo

\* C3, as stated: the engine is fed one and the same category for the
\* ratings 900, 1100 and 1170, and one and the same for 2000 and 2050.
C3_ClampedToNearestBucket ==
    engine_calls > 0 =>
        \A j, k \in DOMAIN FedRatings :
            (\/ {FedRatings[j], FedRatings[k]} \subseteq {900, 1100, 1170}
             \/ {FedRatings[j], FedRatings[k]} \subseteq {2000, 2050})
                => FedCategories[j] = FedCategories[k]

\* The setup the k-th item was encoded from, after the mirror transform.
PostMirror(k) ==
    IF yielded[k].turn = "black" THEN Mirror(yielded[k]) ELSE yielded[k]

\* C4: for every item preprocess has encoded, the mirror flag is true
\* exactly if the setup handed in had Black to move, the position stored for
\* the item has White to move, and channel 12 of its tensor holds 1.0 in
\* every cell.
C4_MirrorFlagAndTurn ==
    \A k \in DOMAIN chess_positions :
        /\ mirrored_vec[k] = (yielded[k].turn = "black")
        /\ chess_positions[k].turn = "white"
        /\ \A r \in 0 .. 7 : \A f \in 0 .. 7 : board_tensor[k - 1][12][r][f] = 1

\* C4, witness: preprocess has returned Ok for two setups, the first with
\* White and the second with Black to move.
C4_Witness ==
    /\ pc = "preprocessed"
    /\ Len(chess_positions) = 2
    /\ yielded[1].turn = "white"
    /\ yielded[2].turn = "black"
    /\ mirrored_vec = <<FALSE, TRUE>>

RoleOrder == <<"pawn", "knight", "bishop", "rook", "queen", "king">>

\* The cells of value 1.0 in the piece channels of item k.
PieceCellsSet(k) ==
    {cell \in (0 .. 11) \X (0 .. 7) \X (0 .. 7) :
        board_tensor[k - 1][cell[1]][cell[2]][cell[3]] = 1}

\* C5: for every encoded item, channel c in 0..11, rank index r and file
\* index f, the cell is 1.0 exactly if the post-mirror setup has on the
\* square of rank r and file f a piece that is White for c in 0..5, Black
\* for c in 6..11, with the (c mod 6)-th role of pawn, knight, bishop, rook,
\* queen, king, and 0.0 otherwise; so a square is set in at most one piece
\* channel and the cells set are as many as the pieces.
C5_PieceChannels ==
    \A k \in DOMAIN chess_positions :
        LET board == PostMirror(k).board
        IN
        /\ \A c \in 0 .. 11 : \A r \in 0 .. 7 : \A f \in 0 .. 7 :
              LET sq == r * 8 + f
                  set == /\ sq \in DOMAIN board
                         /\ board[sq].color = (IF c <= 5 THEN "white" ELSE "black")
                         /\ board[sq].role = RoleOrder[(c % 6) + 1]
              IN board_tensor[k - 1][c][r][f] = (IF set THEN 1 ELSE 0)
        /\ \A x, y \in PieceCellsSet(k) :
              (x[2] = y[2] /\ x[3] = y[3]) => x[1] = y[1]
        /\ Cardinality(PieceCellsSet(k)) = Cardinality(DOMAIN board)

\* C5, witness: preprocess has returned Ok for the position after 1. e4 with
\* Black to move, mirrored, with all 32 pieces in its tensor.
C5_Witness ==
    /\ pc = "preprocessed"
    /\ Len(chess_positions) = 1
    /\ yielded[1] = AfterE4Setup
    /\ mirrored_vec[1]
    /\ Cardinality(PieceCellsSet(1)) = 32
    /\ board_tensor[0][0][3][4] = 0
    /\ board_tensor[0][6][4][4] = 1

\* C6: for a raw value v in [-1, 1], process_output returns v/2 + 0.5
\* (which the clamp to [0, 1] leaves as it is) when the item was not
\* mirrored and 1 - (v/2 + 0.5) when it was; the value lies in [0, 1]; and
\* flipping once more gives the value of the call with the other flag.
C6_ValueTransform ==
    (pc = "returned" /\ fn_in.raw_value \in (0 - ONE) .. ONE) =>
        LET v == fn_in.raw_value
            other == process_output(fn_in.logits, v, fn_in.legal_moves,
                                    ~fn_in.mirrored).value
        IN /\ ~fn_in.mirrored => 2 * fn_out.value = v + ONE
           /\ fn_in.mirrored => 2 * fn_out.value = ONE - v
           /\ fn_out.value \in 0 .. ONE
           /\ ONE - fn_out.value = other

\* C6, witness: a mirrored item with raw value 0.5 got the value 0.25.
C6_Witness ==
    /\ pc = "returned"
    /\ fn_in.mirrored
    /\ 2 * fn_in.raw_value = ONE
    /\ 4 * fn_out.value = ONE

\* The indices of the legal moves whose notation is in the vocabulary.
Kept == {k \in DOMAIN fn_in.legal_moves : ToUci(fn_in.legal_moves[k]) \in DOMAIN ALL_MOVES}

\* The logit of the k-th legal move.
LogitAt(k) == fn_in.logits[ALL_MOVES[ToUci(fn_in.legal_moves[k])]]

\* The notation the k-th legal move is to be reported with.
Emitted(k) ==
    IF fn_in.mirrored THEN ToMirrored(ToUci(fn_in.legal_moves[k]))
    ELSE ToUci(fn_in.legal_moves[k])

\* The softmax over the kept moves, as a fraction.
RECURSIVE SumExp(_, _)
SumExp(S, top) ==
    IF S = {} THEN 0
    ELSE LET k == CHOOSE x \in S : TRUE
         IN Exp(LogitAt(k) - top) + SumExp(S \ {k}, top)
TopLogit == CHOOSE t \in {LogitAt(k) : k \in Kept} : \A k \in Kept : LogitAt(k) <= t
SameFraction(p, num, den) == p.num * den = num * p.den

\* C7: the policy holds exactly one entry for each legal move whose
\* canonical-frame notation is in the vocabulary and no other entry, so it
\* is no longer than the list of legal moves; the entry of a move carries
\* the softmax weight of the logit at the vocabulary index of its notation,
\* and its notation mirrored if the item was mirrored, unchanged if not.
C7_PolicyEntries ==
    pc = "returned" =>
        LET policy == fn_out.policy
        IN /\ Len(policy) = Cardinality(Kept)
           /\ Len(policy) <= Len(fn_in.legal_moves)
           /\ \A k \in Kept :
                 \E j \in DOMAIN policy :
                    /\ policy[j].uci = Emitted(k)
                    /\ SameFraction(policy[j].probability,
                                    Exp(LogitAt(k) - TopLogit), SumExp(Kept, TopLogit))
                    /\ policy[j].probability.den > 0
                    /\ \A i \in DOMAIN policy : policy[i].uci = Emitted(k) => i = j
           /\ \A j \in DOMAIN policy : \E k \in Kept : policy[j].uci = Emitted(k)

\* C7, witness: a mirrored item with three legal moves, one of them missing
\* from the vocabulary, was decoded to a policy of two mirrored notations.
C7_Witness ==
    /\ pc = "returned"
    /\ fn_in.mirrored
    /\ fn_in.legal_moves = <<G1F3, B1C3, D2D4>>
    /\ Len(fn_out.policy) = 2
    /\ \E j \in 1 .. 2 : fn_out.policy[j].uci = Uci(Sq(6, 7), Sq(5, 5), "")

\* The place in the legal-move enumeration of the j-th entry of the policy.
EnumIndex(j) == CHOOSE k \in Kept : Emitted(k) = fn_out.policy[j].uci

\* a.probability >= b.probability, on fractions with positive denominators.
AtLeast(a, b) == a.num * b.den >= b.num * a.den

\* C8: the policy is ordered by non-increasing probability, and entries of
\* equal probability stand in the order in which the legal moves were
\* enumerated.
C8_SortedStable ==
    pc = "returned" =>
        LET policy == fn_out.policy
        IN \A i, j \in DOMAIN policy :
              i < j =>
                 /\ AtLeast(policy[i].probability, policy[j].probability)
                 /\ AtLeast(policy[j].probability, policy[i].probability)
                       => EnumIndex(i) < EnumIndex(j)

\* C8, witness: three moves were decoded, the first enumerated got the
\* smallest probability and the other two got equal ones.
C8_Witness ==
    /\ pc = "returned"
    /\ Len(fn_out.policy) = 3
    /\ EnumIndex(3) = 1
    /\ EnumIndex(1) = 2
    /\ EnumIndex(2) = 3
    /\ fn_out.policy[1].probability = fn_out.policy[2].probability
    /\ fn_out.policy[3].probability # fn_out.policy[2].probability

\* C9: decoding a position with no legal move, or with legal moves that are
\* all missing from the vocabulary, returns an empty policy and a win
\* probability in [0, 1]; no entry of any policy is a fraction over a zero
\* sum of exponentials.
C9_EmptyPolicy ==
    pc = "returned" =>
        /\ Kept = {} =>
              /\ fn_out.policy = <<>>
              /\ fn_out.value \in 0 .. ONE
        /\ \A j \in DOMAIN fn_out.policy : fn_out.policy[j].probability.den > 0

\* C9, witness: the checkmated position was decoded, from a mirrored item.
C9_Witness ==
    /\ pc = "returned"
    /\ fn_in.chess.board = MatedBoard
    /\ fn_in.legal_moves = <<>>
    /\ fn_in.mirrored
    /\ fn_out.policy = <<>>
    /\ fn_out.value = ONE

\* C9, a second case reached: the only legal move is missing from the
\* vocabulary.
C9_AllAbsentReached ==
    /\ pc = "returned"
    /\ fn_in.legal_moves = <<B7B8N>>
    /\ fn_out.policy = <<>>

\* C10: a call that returns Ok over N setups has invoked the engine exactly
\* once, with the tensors of all N encoded items and the two bucketized
\* slices, and returns N results in input order: result i is decoded from
\* row i of both outputs, the mirror flag of item i and the legal moves of
\* the canonical position of item i.  The engine is never invoked twice.
C10_OneInferenceInOrder ==
    /\ engine_calls <= 1
    /\ outcome = "ok" =>
          /\ engine_calls = 1
          /\ iter_done
          /\ Len(yielded) = batch_size
          /\ Len(results) = batch_size
          /\ Len(chess_positions) = batch_size
          /\ engine_in.elo_self = [k \in DOMAIN elo_selfs |-> EloCategory(elo_selfs[k])]
          /\ engine_in.elo_oppo = [k \in DOMAIN elo_oppos |-> EloCategory(elo_oppos[k])]
          /\ \A k \in 1 .. batch_size :
                /\ chess_positions[k] = PostMirror(k)
                /\ engine_in.boards[k - 1] = board_to_tensor(PostMirror(k), ZeroItem)
                /\ legal_seen[k] \in BatchLegalLists(PostMirror(k))
                /\ results[k] = process_output(logits_maia[k], logits_value[k],
                                               legal_seen[k],
                                               yielded[k].turn = "black")

\* C10, witness: a call over a White-to-move and a Black-to-move setup has
\* returned two different results.
C10_Witness ==
    /\ outcome = "ok"
    /\ batch_size = 2
    /\ yielded = <<TestSetup, AfterE4Setup>>
    /\ logits_maia[1] = logits_maia[2]
    /\ logits_value[1] = logits_value[2]
    /\ Len(results[1].policy) = 3
    /\ Len(results[2].policy) = 2
    /\ results[1].value # results[2].value

----------------------------------------------------------------------------
\* A setup with fewer than two kings: the rules engine refuses it.
LacksKing(setup) ==
    \E c \in Colors : \A s \in DOMAIN setup.board : setup.board[s] # Pc(c, "king")

\* The setups of the call that reached the validation and fail it.
FailedValidation ==
    {k \in DOMAIN yielded : k <= batch_size /\ LacksKing(yielded[k])}

\* C11: there is no partial-batch success.  Once a setup of the batch, at
\* whatever index, fails the legality validation, the call has ended with
\* InvalidPosition, no EvaluationResult exists for any item and the engine
\* was not invoked; and evaluate_fen on a malformed text has returned
\* InvalidFen, with no setup handed to preprocess and the engine not invoked.
C11_NoPartialBatchSuccess ==
    /\ FailedValidation # {} =>
          /\ pc \in {"done", "returned"}
          /\ outcome = "InvalidPosition"
          /\ results = <<>>
          /\ fn_out = <<>>
          /\ engine_calls = 0
    /\ (ViaFen /\ fn_in.fen \in MalformedFens) =>
          /\ pc = "returned"
          /\ outcome = "InvalidFen"
          /\ yielded = <<>>
          /\ results = <<>>
          /\ fn_out = <<>>
          /\ engine_calls = 0

\* C11 witness: a batch of two whose first setup passed the validation and
\* whose second failed it; the call ended with InvalidPosition.
C11_Witness ==
    /\ ~ViaFen
    /\ batch_size = 2
    /\ Len(yielded) = 2
    /\ FailedValidation = {2}
    /\ Len(chess_positions) = 1
    /\ outcome = "InvalidPosition"

\* C11, second case reached: evaluate_fen was given a malformed text.
C11_MalformedFenReached ==
    /\ ViaFen
    /\ fn_in.fen \in MalformedFens
    /\ outcome = "InvalidFen"

\* C11, third case reached: evaluate_fen was given a text that parses to a
\* setup the rules engine refuses.
C11_IllegalFenReached ==
    /\ ViaFen
    /\ fn_in.fen = NoKingFen
    /\ pc = "returned"
    /\ outcome = "InvalidPosition"

----------------------------------------------------------------------------
\* preprocess returned Ok(PreprocessedData { .. }).
PreprocessOk == pc = "preprocessed"

\* C12: preprocess returns Ok only when the number of setups supplied equals
\* batch_size; whenever it returns Ok, mirrored, chess_positions and the first
\* dimension of board_tensor all have length batch_size; and a call with zero
\* setups and batch_size 0 returns Ok with empty outputs.
C12_OkOnlyWhenCountsMatch ==
    /\ PreprocessOk =>
          /\ Len(yielded) = batch_size
          /\ Len(mirrored_vec) = batch_size
          /\ Len(chess_positions) = batch_size
          /\ DOMAIN board_tensor = 0 .. (batch_size - 1)
    /\ (iter_done /\ yielded = <<>> /\ batch_size = 0) =>
          /\ PreprocessOk
          /\ mirrored_vec = <<>>
          /\ chess_positions = <<>>
          /\ DOMAIN board_tensor = {}

====
